---- MODULE Spec2Model ----
(***************************************************************************)
(* The storefront's relational schema (tables, constraints, foreign keys,  *)
(* row level security policies and the identity-provisioning trigger) as a *)
(* state machine: the state is the contents of the tables, a step is one   *)
(* SQL statement (insert, update, delete) issued by one role.              *)
(*                                                                         *)
(* A nullable SQL value is a sequence: <<>> is NULL, <<v>> is the value v. *)
(* Primary keys are plain values. Columns that carry no constraint, no     *)
(* key and no policy (billing_address, payment_method, category, system,   *)
(* description, image, images, metadata, created_at, active, unit_amount,  *)
(* total_amount, order_items.quantity) are payload and are left out.       *)
(***************************************************************************)
EXTENDS Integers, Sequences, FiniteSets, TLC

VARIABLES auth_users, users, customers, sizes, colors, products,
          product_variants, product_changes, prices, orders, order_items,
          order_changes, last, returned

vars == <<auth_users, users, customers, sizes, colors, products,
          product_variants, product_changes, prices, orders, order_items,
          order_changes, last, returned>>

\* ------------------------------------------------------------------ bounds
\* Primary keys of every table are drawn from 1..MaxId.
MaxId == 2
\* Stock quantities offered to product_variants range over -1..MaxQuantity.
MaxQuantity == 1

\* ------------------------------------------------------------------ values
Null == <<>>
V(x) == <<x>>
IsNull(v) == v = <<>>
Val(v) == v[1]

Ids == 1..MaxId

\* ------------------------------------------------------------------ schema
Tables == {"auth_users", "users", "customers", "sizes", "colors", "products",
           "product_variants", "product_changes", "prices", "orders",
           "order_items", "order_changes"}

\* The columns of each table besides its primary key id.
Columns(t) ==
  CASE t = "auth_users"       -> {"raw_user_meta_data"}
    [] t = "users"            -> {"full_name", "avatar_url"}
    [] t = "customers"        -> {"stripe_customer_id"}
    [] t = "sizes"            -> {"name"}
    [] t = "colors"           -> {"name"}
    [] t = "products"         -> {"name"}
    [] t = "product_variants" -> {"product_id", "size_id", "color_id", "quantity"}
    [] t = "product_changes"  -> {"product_id", "product_variant_id", "changelog"}
    [] t = "prices"           -> {"product_variant_id", "currency"}
    [] t = "orders"           -> {"user_id", "status", "currency"}
    [] t = "order_items"      -> {"order_id", "product_variant_id", "currency"}
    [] t = "order_changes"    -> {"order_id", "status"}

\* The value a column takes when an insert leaves it out.
ColumnDefault(t, c) ==
  IF t = "product_variants" /\ c = "quantity" THEN V(0) ELSE Null

\* The columns declared not null.
NotNullColumns(t) ==
  CASE t = "sizes"            -> {"name"}
    [] t = "colors"           -> {"name"}
    [] t = "products"         -> {"name"}
    [] t = "product_variants" -> {"size_id", "color_id"}
    [] t = "orders"           -> {"user_id"}
    [] OTHER                  -> {}

\* check (quantity >= 0), declared inline on the column. A check constraint
\* is satisfied when its expression is true or unknown (NULL).
quantity_check(row) == IsNull(row.quantity) \/ Val(row.quantity) >= 0

\* The same condition, declared again as a named constraint.
check_quantity_non_negative(row) == IsNull(row.quantity) \/ Val(row.quantity) >= 0

\* A check written char_length(currency) <= 3.
currency_check_at_most_three(row) == IsNull(row.currency) \/ Len(Val(row.currency)) <= 3

\* check (char_length(currency) = 3) on prices, orders and order_items.
currency_check(row) == IsNull(row.currency) \/ Len(Val(row.currency)) = 3

\* A schema whose product_variants carries neither quantity check.
CheckConstraintsWithoutQuantity(t, row) ==
  CASE t \in {"prices", "orders", "order_items"} -> currency_check(row)
    [] OTHER -> TRUE

CheckConstraints(t, row) ==
  CASE t = "product_variants" -> quantity_check(row) /\ check_quantity_non_negative(row)
    [] t \in {"prices", "orders", "order_items"} -> currency_check(row)
    [] OTHER -> TRUE

\* A schema whose product_variants lacks unique (product_id, size_id, color_id).
UniqueConstraintsWithoutTriple(t) ==
  CASE t = "sizes"            -> {{"name"}}
    [] t = "colors"           -> {{"name"}}
    [] OTHER                  -> {}

\* The unique constraints besides the primary key, each a set of columns.
UniqueConstraints(t) ==
  CASE t = "sizes"            -> {{"name"}}
    [] t = "colors"           -> {{"name"}}
    [] t = "product_variants" -> {{"product_id", "size_id", "color_id"}}
    [] OTHER                  -> {}

\* Two rows collide on a unique constraint when all its columns are not null
\* and equal (NULLs are distinct from one another).
UniqueCollision(cols, r1, r2) ==
  \A c \in cols : ~IsNull(r1[c]) /\ r1[c] = r2[c]

\* The foreign keys. "id" as the column means the primary key references.
ForeignKeys ==
  { [from |-> "users",            col |-> "id",                 to |-> "auth_users",       on_delete |-> "no action"],
    [from |-> "customers",        col |-> "id",                 to |-> "auth_users",       on_delete |-> "no action"],
    [from |-> "product_variants", col |-> "product_id",         to |-> "products",         on_delete |-> "cascade"],
    [from |-> "product_variants", col |-> "size_id",            to |-> "sizes",            on_delete |-> "no action"],
    [from |-> "product_variants", col |-> "color_id",           to |-> "colors",           on_delete |-> "no action"],
    [from |-> "product_changes",  col |-> "product_id",         to |-> "products",         on_delete |-> "no action"],
    [from |-> "product_changes",  col |-> "product_variant_id", to |-> "product_variants", on_delete |-> "no action"],
    [from |-> "prices",           col |-> "product_variant_id", to |-> "product_variants", on_delete |-> "no action"],
    [from |-> "orders",           col |-> "user_id",            to |-> "auth_users",       on_delete |-> "no action"],
    [from |-> "order_items",      col |-> "order_id",           to |-> "orders",           on_delete |-> "no action"],
    [from |-> "order_items",      col |-> "order_id",           to |-> "orders",           on_delete |-> "cascade"],
    [from |-> "order_items",      col |-> "product_variant_id", to |-> "product_variants", on_delete |-> "no action"],
    [from |-> "order_changes",    col |-> "order_id",           to |-> "orders",           on_delete |-> "no action"] }

\* The referencing value of a row under a foreign key (never NULL for "id").
FkValue(fk, row) == IF fk.col = "id" THEN V(row.id) ELSE row[fk.col]

\* ------------------------------------------------------- row level security
Roles == {"anon", "authenticated", "admin", "service_role"}

\* The end-user roles: requests made with the public key or a user's session.
EndUserRoles == {"anon", "authenticated"}

\* The tables with "enable row level security".
RlsEnabled ==
  {"users", "customers", "sizes", "colors", "products", "product_variants",
   "product_changes", "prices", "orders", "order_items"}

\* service_role (the table owner, and every security definer function)
\* bypasses row level security; so does every role on a table without it.
RlsApplies(role, t) == t \in RlsEnabled /\ role # "service_role"

\* A select policy on users written "using (true)".
CanViewAnyUserData(uid, row) == TRUE

\* policy "Can view own user data." on users for select using (auth.uid() = id)
CanViewOwnUserData(uid, row) == uid = V(row.id)

\* policy "Can update own user data." on users for update using (auth.uid() = id)
CanUpdateOwnUserData(uid, row) == uid = V(row.id)

\* A select policy on orders written "using (true)".
CanViewAnyOrder(uid, row) == TRUE

\* policy "Can only view own orders." on orders for select using (auth.uid() = user_id)
CanOnlyViewOwnOrders(uid, row) == ~IsNull(uid) /\ uid = row.user_id

\* The orders a sub-select inside a policy sees: it runs as the querying role,
\* under that role's policies on orders.
OrdersVisible(D, role, uid) ==
  IF RlsApplies(role, "orders")
    THEN {o \in D.orders : CanOnlyViewOwnOrders(uid, o)}
    ELSE D.orders

\* policy "Can only view own order items." on order_items for select using
\* (auth.uid() = (select user_id from orders where orders.id = order_items.order_id))
CanOnlyViewOwnOrderItems(D, role, uid, row) ==
  /\ ~IsNull(uid)
  /\ \E o \in OrdersVisible(D, role, uid) : V(o.id) = row.order_id /\ o.user_id = uid

\* The policies "Allow admins to insert/update/delete ..." are granted "to
\* admin" with the expression true.
AllowAdmins(role) == role = "admin"

\* Whether some policy of table t for command cmd, granted to the role, passes
\* the row. A table with row level security and no policy for a command
\* passes nothing.
PolicyPasses(D, t, cmd, role, uid, row) ==
  CASE t = "users" /\ cmd = "select" -> CanViewOwnUserData(uid, row)
    [] t = "users" /\ cmd = "update" -> CanUpdateOwnUserData(uid, row)
    [] t \in {"sizes", "colors", "products", "product_variants"} /\ cmd = "select" -> TRUE
    [] t \in {"sizes", "colors", "products", "product_variants"}
         /\ cmd \in {"insert", "update", "delete"} -> AllowAdmins(role)
    [] t \in {"product_changes", "prices"} /\ cmd = "select" -> AllowAdmins(role)
    [] t = "orders" /\ cmd = "select" -> CanOnlyViewOwnOrders(uid, row)
    [] t = "order_items" /\ cmd = "select" -> CanOnlyViewOwnOrderItems(D, role, uid, row)
    [] OTHER -> FALSE

\* Whether the role may apply cmd to the row.
Permits(D, t, cmd, role, uid, row) ==
  ~RlsApplies(role, t) \/ PolicyPasses(D, t, cmd, role, uid, row)

\* The rows of t the role sees.
Select(D, t, role, uid) == {r \in D[t] : Permits(D, t, "select", role, uid, r)}

\* Whether a row satisfies "where c = v and ..." (where maps columns to
\* values): a comparison with NULL is not true.
Matches(row, where) ==
  \A c \in DOMAIN where : row[c] = where[c] /\ (c # "id" => ~IsNull(row[c]))

\* select * from t where ...: the rows returned. A row the policies hide is
\* left out; that is no error.
SelectWhere(D, s) ==
  [db |-> D, result |-> "ok",
   rows |-> {r \in Select(D, s.table, s.role, s.uid) : Matches(r, s.row)}]

\* ---------------------------------------------------------------- the store
\* The contents of all tables, each a set of rows.
db == [auth_users |-> auth_users, users |-> users, customers |-> customers,
       sizes |-> sizes, colors |-> colors, products |-> products,
       product_variants |-> product_variants, product_changes |-> product_changes,
       prices |-> prices, orders |-> orders, order_items |-> order_items,
       order_changes |-> order_changes]

EmptyDb == [t \in Tables |-> {}]

\* An engine that does not evaluate check constraints.
ConstraintErrorSkippingChecks(D, t, new, others) ==
  IF \E c \in NotNullColumns(t) : IsNull(new[c]) THEN "not_null_violation"
  ELSE IF \E r \in others :
            \/ r.id = new.id
            \/ \E u \in UniqueConstraints(t) : UniqueCollision(u, new, r)
    THEN "unique_violation"
  ELSE IF \E fk \in ForeignKeys :
            /\ fk.from = t
            /\ ~IsNull(FkValue(fk, new))
            /\ ~\E p \in D[fk.to] : p.id = Val(FkValue(fk, new))
    THEN "foreign_key_violation"
  ELSE "ok"

\* The first constraint a new row of t violates, beside the rows `others`,
\* in the order the engine checks them; "ok" when none.
ConstraintError(D, t, new, others) ==
  IF \E c \in NotNullColumns(t) : IsNull(new[c]) THEN "not_null_violation"
  ELSE IF ~CheckConstraints(t, new) THEN "check_violation"
  ELSE IF \E r \in others :
            \/ r.id = new.id
            \/ \E u \in UniqueConstraints(t) : UniqueCollision(u, new, r)
    THEN "unique_violation"
  ELSE IF \E fk \in ForeignKeys :
            /\ fk.from = t
            /\ ~IsNull(FkValue(fk, new))
            /\ ~\E p \in D[fk.to] : p.id = Val(FkValue(fk, new))
    THEN "foreign_key_violation"
  ELSE "ok"

\* insert into t (...) values (...): the columns left out take their default.
WithDefaults(t, row) ==
  [c \in Columns(t) \cup {"id"} |->
     IF c \in DOMAIN row THEN row[c] ELSE ColumnDefault(t, c)]

InsertRow(D, t, role, uid, row) ==
  LET new == WithDefaults(t, row)
      err == ConstraintError([D EXCEPT ![t] = @ \cup {new}], t, new, D[t])
  IN  IF ~Permits(D, t, "insert", role, uid, new)
        THEN [db |-> D, result |-> "rls_violation"]
      ELSE IF err # "ok" THEN [db |-> D, result |-> err]
      ELSE [db |-> [D EXCEPT ![t] = @ \cup {new}], result |-> "ok"]

\* JSON values: a string, or null.
JsonString(text) == [type |-> "string", text |-> text]
JsonNull == [type |-> "null"]

\* raw_user_meta_data->>'key': the text of the key's value; NULL when the
\* column is NULL, the key is absent or the key holds a JSON null.
JsonText(json, key) ==
  IF IsNull(json) THEN Null
  ELSE IF key \notin DOMAIN Val(json) THEN Null
  ELSE IF Val(json)[key].type = "null" THEN Null
  ELSE V(Val(json)[key].text)

\* A trigger function that copies the display name and forgets the avatar.
handle_new_user_without_avatar(D, new) ==
  InsertRow(D, "users", "service_role", Null,
            [id |-> new.id,
             full_name |-> JsonText(new.raw_user_meta_data, "full_name")])

\* function handle_new_user(), security definer: it inserts as the owner.
handle_new_user(D, new) ==
  InsertRow(D, "users", "service_role", Null,
            [id |-> new.id,
             full_name |-> JsonText(new.raw_user_meta_data, "full_name"),
             avatar_url |-> JsonText(new.raw_user_meta_data, "avatar_url")])

\* trigger on_auth_user_created after insert on auth.users for each row: an
\* error in the trigger aborts the statement that fired it.
Insert(D, s) ==
  LET r == InsertRow(D, s.table, s.role, s.uid, s.row)
  IN  IF r.result = "ok" /\ s.table = "auth_users"
        THEN LET h == handle_new_user(r.db, WithDefaults("auth_users", s.row))
             IN  IF h.result = "ok" THEN h ELSE [db |-> D, result |-> h.result]
        ELSE r

\* Whether some row of the store references row p of table t.
Referenced(D, t, p) ==
  \E fk \in ForeignKeys : fk.to = t /\ \E r \in D[fk.from] : FkValue(fk, r) = V(p.id)

\* update t set ... where id = s.id. The statement reads the table, so the
\* select policy applies with the update policy; an update policy without
\* "with check" applies its "using" expression to the new row as well.
Update(D, s) ==
  LET t == s.table
      target == {r \in D[t] : /\ r.id = s.id
                              /\ Permits(D, t, "select", s.role, s.uid, r)
                              /\ Permits(D, t, "update", s.role, s.uid, r)}
  IN  IF target = {} THEN [db |-> D, result |-> "no_rows"]
      ELSE
        LET old == CHOOSE r \in target : TRUE
            new == [c \in DOMAIN old |-> IF c \in DOMAIN s.row THEN s.row[c] ELSE old[c]]
            D2  == [D EXCEPT ![t] = (@ \ {old}) \cup {new}]
            err == ConstraintError(D2, t, new, D[t] \ {old})
        IN  IF ~( /\ Permits(D2, t, "update", s.role, s.uid, new)
                  /\ Permits(D2, t, "select", s.role, s.uid, new) )
              THEN [db |-> D, result |-> "rls_violation"]
            ELSE IF err # "ok" THEN [db |-> D, result |-> err]
            ELSE IF new.id # old.id /\ Referenced(D, t, old)
              THEN [db |-> D, result |-> "foreign_key_violation"]
            ELSE [db |-> D2, result |-> "ok"]

\* The rows deleted with the rows `del` (a set of rows per table): those that
\* reference a deleted row through an "on delete cascade" foreign key.
RECURSIVE CascadeClosure(_, _)
CascadeClosure(D, del) ==
  LET more == [t \in Tables |->
                 {r \in D[t] \ del[t] :
                    \E fk \in ForeignKeys :
                       /\ fk.from = t /\ fk.on_delete = "cascade"
                       /\ \E p \in del[fk.to] : FkValue(fk, r) = V(p.id)}]
  IN  IF \A t \in Tables : more[t] = {} THEN del
      ELSE CascadeClosure(D, [t \in Tables |-> del[t] \cup more[t]])

\* The order in which the referential actions of one delete run. order_items
\* references orders twice, once without action and once with cascade: the
\* check of the first sees the items when it runs before the cascade of the
\* second, and sees none when it runs after it.
RiOrders == {"check_first", "cascade_first"}

\* delete from t where id = s.id, its referential actions run in order ri.
Delete(D, s, ri) ==
  LET t == s.table
      target == {r \in D[t] : /\ r.id = s.id
                              /\ Permits(D, t, "select", s.role, s.uid, r)
                              /\ Permits(D, t, "delete", s.role, s.uid, r)}
      del == CascadeClosure(D, [x \in Tables |-> IF x = t THEN target ELSE {}])
      D2  == [x \in Tables |-> D[x] \ del[x]]
  IN  IF target = {} THEN [db |-> D, result |-> "no_rows"]
      ELSE IF /\ ri = "check_first"
              /\ \E fk \in ForeignKeys :
                    /\ fk.to = t /\ fk.on_delete = "no action"
                    /\ \E r \in D[fk.from], p \in target : FkValue(fk, r) = V(p.id)
        THEN [db |-> D, result |-> "foreign_key_violation"]
      ELSE IF \E fk \in ForeignKeys :
                 \E r \in D2[fk.from], p \in del[fk.to] : FkValue(fk, r) = V(p.id)
        THEN [db |-> D, result |-> "foreign_key_violation"]
      ELSE [db |-> D2, result |-> "ok"]

\* One statement against the store D: the outcomes it can have, each the
\* store after it and the result returned.
Exec(D, s) ==
  CASE s.cmd = "select" -> {SelectWhere(D, s)}
    [] s.cmd = "insert" -> {Insert(D, s)}
    [] s.cmd = "update" -> {Update(D, s)}
    [] s.cmd = "delete" -> {Delete(D, s, ri) : ri \in RiOrders}

\* The statement takes effect as a whole: the tables become those of res,
\* and the rows a select found are returned.
Commit(res) ==
  /\ returned' = IF "rows" \in DOMAIN res THEN res.rows ELSE {}
  /\ auth_users' = res.db.auth_users
  /\ users' = res.db.users
  /\ customers' = res.db.customers
  /\ sizes' = res.db.sizes
  /\ colors' = res.db.colors
  /\ products' = res.db.products
  /\ product_variants' = res.db.product_variants
  /\ product_changes' = res.db.product_changes
  /\ prices' = res.db.prices
  /\ orders' = res.db.orders
  /\ order_items' = res.db.order_items
  /\ order_changes' = res.db.order_changes

\* What last remembers of a statement: who issued what against which table,
\* and the result returned.
Outcome(s, res) ==
  [cmd |-> s.cmd, table |-> s.table, role |-> s.role, uid |-> s.uid,
   result |-> res.result]

\* The state after the schema is created: every table is empty.
Init ==
  /\ auth_users = {} /\ users = {} /\ customers = {}
  /\ sizes = {} /\ colors = {} /\ products = {}
  /\ product_variants = {} /\ product_changes = {} /\ prices = {}
  /\ orders = {} /\ order_items = {} /\ order_changes = {}
  /\ last = [cmd |-> "none", table |-> "none", role |-> "none", uid |-> Null,
             result |-> "ok"]
  /\ returned = {}

\* ------------------------------------------------------------- statements
InsertStmt(t, role, uid, row) ==
  [cmd |-> "insert", table |-> t, role |-> role, uid |-> uid, row |-> row]

UpdateStmt(t, role, uid, id, set) ==
  [cmd |-> "update", table |-> t, role |-> role, uid |-> uid, id |-> id, row |-> set]

SelectStmt(t, role, uid, where) ==
  [cmd |-> "select", table |-> t, role |-> role, uid |-> uid, row |-> where]

DeleteStmt(t, role, uid, id) ==
  [cmd |-> "delete", table |-> t, role |-> role, uid |-> uid, id |-> id]

\* Who issues statements: an end user with a session (auth.uid() is the
\* user's id), an end user without one (auth.uid() is NULL), the inventory
\* manager as admin, and the back office (webhooks, the owner) as service_role.
Session(u) == [role |-> "authenticated", uid |-> V(u)]
Anon == [role |-> "anon", uid |-> Null]
Admin == [role |-> "admin", uid |-> Null]
Service == [role |-> "service_role", uid |-> Null]

EndUsers == {Session(u) : u \in 1..MaxId} \cup {Anon}

\* The sessions that issue statements: two identities, u1 and u2, and a visitor.
Owners == {1, 2}
OwnerActors == {Session(u) : u \in Owners} \cup {Anon}
AllActors == OwnerActors \cup {Admin, Service}

Inserts(t, actors, rows) ==
  {InsertStmt(t, a.role, a.uid, row) : a \in actors, row \in rows}

Updates(t, actors, ids, sets) ==
  {UpdateStmt(t, a.role, a.uid, i, set) : a \in actors, i \in ids, set \in sets}

Selects(t, actors, wheres) ==
  {SelectStmt(t, a.role, a.uid, w) : a \in actors, w \in wheres}

Deletes(t, actors, ids) ==
  {DeleteStmt(t, a.role, a.uid, i) : a \in actors, i \in ids}

\* --------------------------------------------------- the catalog statements
\* The inventory manager's reference data.
SizeRows == {[id |-> 1, name |-> V("Small")]}
ColorRows == {[id |-> 1, name |-> V("Red")]}
ProductRows == {[id |-> 1, name |-> V("Tee")]}

\* The variants offered: with and without a product, and with the quantity
\* left out, NULL, negative or in stock.
Quantities == {Null} \cup {V(n) : n \in -1..MaxQuantity}

VariantRows ==
  { [id |-> i, product_id |-> p, size_id |-> V(1), color_id |-> V(1)] :
      i \in 1..MaxId, p \in {Null, V(1)} }
  \cup
  { [id |-> i, product_id |-> p, size_id |-> V(1), color_id |-> V(1), quantity |-> q] :
      i \in 1..MaxId, p \in {Null, V(1)}, q \in Quantities }

VariantSets ==
  {[quantity |-> q] : q \in Quantities} \cup {[product_id |-> p] : p \in {Null, V(1)}}

CatalogActors == {Admin, Session(1)}

\* The writes to product_variants attempted: every one by an admin, and by a
\* signed-in user those on variant 1.
VariantInserts ==
  Inserts("product_variants", {Admin}, VariantRows)
  \cup Inserts("product_variants", {Session(1)}, {r \in VariantRows : r.id = 1})

VariantUpdates ==
  Updates("product_variants", {Admin}, 1..MaxId, VariantSets)
  \cup Updates("product_variants", {Session(1)}, {1}, VariantSets)

InsertRef ==
  \E s \in Inserts("sizes", CatalogActors, SizeRows)
           \cup Inserts("colors", CatalogActors, ColorRows)
           \cup Inserts("products", CatalogActors, ProductRows), D \in {db} :
     \E res \in Exec(D, s) :
        /\ Commit(res)
        /\ last' = Outcome(s, res)

DeleteProduct ==
  \E s \in Deletes("products", CatalogActors, {1}), D \in {db} :
     \E res \in Exec(D, s) :
        /\ Commit(res)
        /\ last' = Outcome(s, res)

InsertVariant ==
  \E s \in VariantInserts, D \in {db} :
     \E res \in Exec(D, s) :
        /\ Commit(res)
        /\ last' = Outcome(s, res)

UpdateVariant ==
  \E s \in VariantUpdates, D \in {db} :
     \E res \in Exec(D, s) :
        /\ Commit(res)
        /\ last' = Outcome(s, res)

DeleteVariant ==
  \E s \in Deletes("product_variants", CatalogActors, 1..MaxId), D \in {db} :
     \E res \in Exec(D, s) :
        /\ Commit(res)
        /\ last' = Outcome(s, res)

NextCatalog ==
  InsertRef \/ DeleteProduct \/ InsertVariant \/ UpdateVariant \/ DeleteVariant

SpecCatalog == Init /\ [][NextCatalog]_vars

\* ----------------------------------------------------- product_variants
Triple(r) == <<r.product_id, r.size_id, r.color_id>>

\* The writes to product_variants any role may attempt.
VariantWrites ==
  Inserts("product_variants", AllActors, VariantRows)
  \cup Updates("product_variants", AllActors, 1..MaxId, VariantSets)

\* The row a write would store, and the rows it would stand beside.
WrittenRow(s) ==
  IF s.cmd = "insert" THEN WithDefaults(s.table, s.row)
  ELSE LET old == CHOOSE r \in db[s.table] : r.id = s.id
       IN  [c \in DOMAIN old |-> IF c \in DOMAIN s.row THEN s.row[c] ELSE old[c]]

RowsBeside(s) ==
  IF s.cmd = "insert" THEN db[s.table]
  ELSE {r \in db[s.table] : r.id # s.id}

HasTarget(s) == s.cmd = "insert" \/ \E r \in db[s.table] : r.id = s.id

\* C1 as stated: no two distinct rows of product_variants share the same
\* (product_id, size_id, color_id) triple.
C1_NoTwoRowsShareTriple ==
  \A r1, r2 \in product_variants : r1 # r2 => Triple(r1) # Triple(r2)

\* C1, amended: no two distinct rows of product_variants whose product_id is
\* not NULL share the same (product_id, size_id, color_id) triple, and an
\* insert or update that would store a second row with the triple of a
\* present row, product_id not NULL, is rejected and changes nothing.
C1_NoTwoRowsWithProductShareTriple ==
  /\ \A r1, r2 \in product_variants :
        r1 # r2 /\ Triple(r1) = Triple(r2) => IsNull(r1.product_id)
  /\ \A s \in VariantWrites :
        ( /\ HasTarget(s)
          /\ ~IsNull(WrittenRow(s).product_id)
          /\ \E r \in RowsBeside(s) : Triple(r) = Triple(WrittenRow(s)) )
        => \A res \in Exec(db, s) : res.result # "ok" /\ res.db = db

\* An update was refused for the triple (an update here leaves id alone, so
\* the violation is of the triple) while a variant of a product is stored.
C1_Witness ==
  /\ last.cmd = "update" /\ last.table = "product_variants"
  /\ last.result = "unique_violation"
  /\ \E r \in product_variants : ~IsNull(r.product_id)

\* C2 as stated: every row of product_variants has quantity >= 0.
C2_QuantityNonNegative ==
  \A r \in product_variants : ~IsNull(r.quantity) /\ Val(r.quantity) >= 0

\* C2, amended: every row of product_variants has a quantity that is NULL or
\* >= 0, whatever inserts and updates by whatever role produced it; an insert
\* that leaves quantity out stores 0.
C2_QuantityNullOrNonNegative ==
  /\ \A r \in product_variants : IsNull(r.quantity) \/ Val(r.quantity) >= 0
  /\ \A s \in VariantWrites : \A res \in Exec(db, s) :
        s.cmd = "insert" /\ "quantity" \notin DOMAIN s.row /\ res.result = "ok"
        => \E r \in res.db.product_variants : r.id = s.row.id /\ r.quantity = V(0)

\* A negative quantity was just refused, and rows with a stock or the
\* default, and with NULL, have been stored.
C2_Witness ==
  /\ last.table = "product_variants" /\ last.result = "check_violation"
  /\ \E r1, r2 \in product_variants :
        IsNull(r1.quantity) /\ r2.quantity \in {V(0), V(MaxQuantity)}

\* The updates of product_variants to a negative quantity, alone or together
\* with another column.
NegativeQuantityUpdates ==
  Updates("product_variants", AllActors, 1..MaxId,
          {[quantity |-> V(-1)], [quantity |-> V(-2)]}
          \cup {[quantity |-> V(-1), product_id |-> p] : p \in {Null, V(1)}})

\* C3: an update of a product_variants row that sets quantity to a negative
\* value changes no row of any table, and when it reaches the row (the role
\* may update it) it is rejected with a check violation.
C3_NegativeUpdateRejected ==
  \A s \in NegativeQuantityUpdates : \A res \in Exec(db, s) :
     /\ res.db = db
     /\ ( /\ \E r \in product_variants : r.id = s.id
          /\ s.role \in {"admin", "service_role"} )
        => res.result = "check_violation"

\* The inventory manager's update was just rejected by the check, and the
\* row still holds its stock.
C3_Witness ==
  /\ last = [cmd |-> "update", table |-> "product_variants", role |-> "admin",
             uid |-> Null, result |-> "check_violation"]
  /\ \E r \in product_variants : r.quantity = V(MaxQuantity)

\* --------------------------------------------------- the account statements
\* Registration metadata: none, a name with a null avatar, a name and an avatar.
MetaDomain ==
  { <<>>,
    [full_name |-> JsonString("Ada"), avatar_url |-> JsonNull],
    [full_name |-> JsonString("Ada"), avatar_url |-> JsonString("ada.png")] }

\* An identity registers upstream: a row is inserted into auth.users.
Registrations ==
  Inserts("auth_users", {Service},
          {[id |-> u, raw_user_meta_data |-> V(m)] : u \in 1..MaxId, m \in MetaDomain})

UserSets == {[full_name |-> V("Eve")]} \cup {[id |-> j] : j \in 1..MaxId}

UserRows == {[id |-> i, full_name |-> V("Eve")] : i \in 1..MaxId}

\* The customer of identity 1 at the payment processor.
CustomerRows == {[id |-> 1, stripe_customer_id |-> V("cus_1")]}
CustomerSets == {[stripe_customer_id |-> V("cus_x")]}

UserWheres == {<<>>} \cup {[id |-> j] : j \in 1..MaxId}

SelectUser ==
  \E s \in Selects("users", OwnerActors, UserWheres), D \in {db} :
     \E res \in Exec(D, s) :
        /\ Commit(res)
        /\ last' = Outcome(s, res)

Register ==
  \E s \in Registrations, D \in {db} :
     \E res \in Exec(D, s) :
        /\ Commit(res)
        /\ last' = Outcome(s, res)

\* The identity is removed upstream.
Unregister ==
  \E s \in Deletes("auth_users", {Service}, 1..MaxId), D \in {db} :
     \E res \in Exec(D, s) :
        /\ Commit(res)
        /\ last' = Outcome(s, res)

InsertUser ==
  \E s \in Inserts("users", OwnerActors, UserRows), D \in {db} :
     \E res \in Exec(D, s) :
        /\ Commit(res)
        /\ last' = Outcome(s, res)

UpdateUser ==
  \E s \in Updates("users", OwnerActors, 1..MaxId, UserSets), D \in {db} :
     \E res \in Exec(D, s) :
        /\ Commit(res)
        /\ last' = Outcome(s, res)

DeleteUser ==
  \E s \in Deletes("users", OwnerActors, 1..MaxId), D \in {db} :
     \E res \in Exec(D, s) :
        /\ Commit(res)
        /\ last' = Outcome(s, res)

InsertCustomer ==
  \E s \in Inserts("customers", OwnerActors \cup {Service}, CustomerRows), D \in {db} :
     \E res \in Exec(D, s) :
        /\ Commit(res)
        /\ last' = Outcome(s, res)

UpdateCustomer ==
  \E s \in Updates("customers", OwnerActors, {1}, CustomerSets), D \in {db} :
     \E res \in Exec(D, s) :
        /\ Commit(res)
        /\ last' = Outcome(s, res)

DeleteCustomer ==
  \E s \in Deletes("customers", OwnerActors, {1}), D \in {db} :
     \E res \in Exec(D, s) :
        /\ Commit(res)
        /\ last' = Outcome(s, res)

NextAccounts ==
  \/ Register \/ Unregister \/ InsertUser \/ UpdateUser \/ DeleteUser
  \/ InsertCustomer \/ UpdateCustomer \/ DeleteCustomer \/ SelectUser

SpecAccounts == Init /\ [][NextAccounts]_vars

\* ------------------------------------------------- identity provisioning
\* What the profile is to hold for a metadata key: the key's text when the
\* key is present with a value, NULL otherwise.
ExpectedText(m, key) ==
  IF key \in DOMAIN m /\ m[key] # JsonNull THEN V(m[key].text) ELSE Null

\* C4: the registration of an identity not yet in auth.users succeeds
\* whatever metadata keys are present, and leaves exactly one users row with
\* the identity's id, whose full_name and avatar_url are the metadata values
\* when present and NULL when absent; the identity row and the profile row
\* appear together, and a registration that fails leaves neither.
C4_RegistrationCreatesOneProfile ==
  \A s \in Registrations : \A res \in Exec(db, s) :
     LET u == s.row.id
         m == Val(s.row.raw_user_meta_data)
     IN  IF \E a \in auth_users : a.id = u
           THEN res.result # "ok" /\ res.db = db
           ELSE /\ res.result = "ok"
                /\ res.db.auth_users = auth_users \cup {s.row}
                /\ {r \in res.db.users : r.id = u}
                     = {[id |-> u, full_name |-> ExpectedText(m, "full_name"),
                         avatar_url |-> ExpectedText(m, "avatar_url")]}
                /\ {r \in res.db.users : r.id # u} = users
                /\ \A t \in Tables \ {"auth_users", "users"} : res.db[t] = db[t]

\* A registration has just succeeded; one identity registered without
\* metadata and has a profile with NULLs, another has its name and avatar.
C4_Witness ==
  /\ last.cmd = "insert" /\ last.table = "auth_users" /\ last.result = "ok"
  /\ \E a \in auth_users, r \in users :
        a.id = r.id /\ a.raw_user_meta_data = V(<<>>)
        /\ IsNull(r.full_name) /\ IsNull(r.avatar_url)
  /\ \E r \in users : r.full_name = V("Ada") /\ r.avatar_url = V("ada.png")

\* ------------------------------------------------------------ users policies
OwnRow(a, r) == a.uid = V(r.id)

UserWrites(a) == Updates("users", {a}, 1..MaxId, UserSets)

\* C7: an end user reads only the users row with their id; an update by the
\* end user changes no table but users and no users row but their own, which
\* keeps its id; an insert or delete on users by the end user is refused and
\* changes nothing.
C7_OwnUserRowOnly ==
  \A a \in EndUsers :
     /\ \A s \in Selects("users", {a}, UserWheres) : \A res \in Exec(db, s) :
           \A r \in res.rows : OwnRow(a, r)
     /\ \A s \in UserWrites(a) : \A res \in Exec(db, s) :
           /\ \A t \in Tables \ {"users"} : res.db[t] = db[t]
           /\ {r \in res.db.users : ~OwnRow(a, r)} = {r \in users : ~OwnRow(a, r)}
           /\ {r.id : r \in res.db.users} = {r.id : r \in users}
     /\ \A s \in Inserts("users", {a}, UserRows) \cup Deletes("users", {a}, 1..MaxId) :
           \A res \in Exec(db, s) :
              /\ res.db = db
              /\ res.result \in {"rls_violation", "no_rows"}

\* A user has just renamed their own profile while another profile, which
\* they did not touch, is stored.
C7_Witness ==
  /\ last.cmd = "update" /\ last.table = "users" /\ last.result = "ok"
  /\ last.role = "authenticated"
  /\ \E r1, r2 \in users :
        /\ V(r1.id) = last.uid /\ r1.full_name = V("Eve")
        /\ r2.id # r1.id /\ r2.full_name # V("Eve")

\* ----------------------------------------------------- the order statements
\* Two orders; order items 1..MaxId; one order change.
OrderIds == {1, 2}

OwnerRows == {[id |-> u, raw_user_meta_data |-> V(<<>>)] : u \in Owners}

OrderRows ==
  {[id |-> o, user_id |-> V(u), status |-> V("created"), currency |-> V("usd")] :
     o \in OrderIds, u \in Owners}

OrderItemRows ==
  {[id |-> i, order_id |-> V(o), currency |-> V("usd")] : i \in 1..MaxId, o \in OrderIds}

OrderChangeRows ==
  {[id |-> 1, order_id |-> V(o), status |-> V("created")] : o \in OrderIds}

OrderWheres == {<<>>} \cup {[id |-> o] : o \in OrderIds}
OrderItemWheres == {<<>>} \cup {[order_id |-> V(o)] : o \in OrderIds}

RegisterOwner ==
  \E s \in Inserts("auth_users", {Service}, OwnerRows), D \in {db} :
     \E res \in Exec(D, s) :
        /\ Commit(res)
        /\ last' = Outcome(s, res)

\* The payment webhook records an order, its items and its status change.
InsertOrder ==
  \E s \in Inserts("orders", {Service}, OrderRows), D \in {db} :
     \E res \in Exec(D, s) :
        /\ Commit(res)
        /\ last' = Outcome(s, res)

InsertOrderItem ==
  \E s \in Inserts("order_items", {Service}, OrderItemRows), D \in {db} :
     \E res \in Exec(D, s) :
        /\ Commit(res)
        /\ last' = Outcome(s, res)

InsertOrderChange ==
  \E s \in Inserts("order_changes", {Service}, OrderChangeRows), D \in {db} :
     \E res \in Exec(D, s) :
        /\ Commit(res)
        /\ last' = Outcome(s, res)

DeleteOrder ==
  \E s \in Deletes("orders", {Service, Session(1)}, OrderIds), D \in {db} :
     \E res \in Exec(D, s) :
        /\ Commit(res)
        /\ last' = Outcome(s, res)

DeleteOrderItem ==
  \E s \in Deletes("order_items", {Service}, 1..MaxId), D \in {db} :
     \E res \in Exec(D, s) :
        /\ Commit(res)
        /\ last' = Outcome(s, res)

DeleteOrderChange ==
  \E s \in Deletes("order_changes", {Service}, {1}), D \in {db} :
     \E res \in Exec(D, s) :
        /\ Commit(res)
        /\ last' = Outcome(s, res)

SelectOrders ==
  \E s \in Selects("orders", OwnerActors, OrderWheres), D \in {db} :
     \E res \in Exec(D, s) :
        /\ Commit(res)
        /\ last' = Outcome(s, res)

SelectOrderItems ==
  \E s \in Selects("order_items", OwnerActors, OrderItemWheres), D \in {db} :
     \E res \in Exec(D, s) :
        /\ Commit(res)
        /\ last' = Outcome(s, res)

NextOrders ==
  \/ RegisterOwner \/ InsertOrder \/ InsertOrderItem \/ InsertOrderChange
  \/ DeleteOrder \/ DeleteOrderItem \/ DeleteOrderChange
  \/ SelectOrders \/ SelectOrderItems

SpecOrders == Init /\ [][NextOrders]_vars

\* Whether the parent order of an order item is owned by uid.
ParentOwnedBy(item, uid) ==
  \E o \in orders : V(o.id) = item.order_id /\ o.user_id = uid

\* C5: a read of orders by an end user returns only rows with user_id the
\* user's id, a read of order_items only rows whose parent order has it; the
\* read returns without error, with no row of another user's order.
C5_ReadsOnlyOwnOrders ==
  /\ \A a \in OwnerActors :
        /\ \A s \in Selects("orders", {a}, OrderWheres) : \A res \in Exec(db, s) :
              res.result = "ok" /\ \A r \in res.rows : r.user_id = a.uid
        /\ \A s \in Selects("order_items", {a}, OrderItemWheres) : \A res \in Exec(db, s) :
              res.result = "ok" /\ \A r \in res.rows : ParentOwnedBy(r, a.uid)
  /\ last.cmd = "select" /\ last.role \in EndUserRoles /\ last.table = "orders"
       => \A r \in returned : r.user_id = last.uid
  /\ last.cmd = "select" /\ last.role \in EndUserRoles /\ last.table = "order_items"
       => \A r \in returned : ParentOwnedBy(r, last.uid)

\* A user has just read order items and was returned some, while an item of
\* another user's order is stored and was not returned.
C5_Witness ==
  /\ last.cmd = "select" /\ last.table = "order_items"
  /\ last.role = "authenticated" /\ last.result = "ok"
  /\ returned # {}
  /\ \E i \in order_items \ returned :
        \E o \in orders : V(o.id) = i.order_id /\ o.user_id # last.uid

\* C10 as stated: the back office's delete of an order that exists succeeds,
\* and no order_items row references an order that does not exist.
C10_DeleteOrderSucceedsAndCascades ==
  /\ ( /\ last.cmd = "delete" /\ last.table = "orders"
       /\ last.role = "service_role" /\ last.result # "no_rows" )
     => last.result = "ok"
  /\ \A i \in order_items :
        IsNull(i.order_id) \/ \E o \in orders : V(o.id) = i.order_id

\* -------------------------------------------------- the currency statements
\* Prices 1..MaxId, one order of identity 1 and one order item. A currency is
\* NULL or a text of zero to four characters.
Currencies == {Null, V("usd"), V("USD"), V("us"), V("usdx"), V("")}

Payer == {[id |-> 1, raw_user_meta_data |-> V(<<>>)]}

PriceRows ==
  {[id |-> i, amount |-> V(100), currency |-> c] : i \in 1..MaxId, c \in Currencies}
  \cup {[id |-> i, amount |-> V(100)] : i \in 1..MaxId}

PricedOrderRows ==
  {[id |-> 1, user_id |-> V(1), status |-> V("created"), currency |-> c] : c \in Currencies}

PricedItemRows == {[id |-> 1, currency |-> c] : c \in Currencies}

CurrencySets == {[currency |-> c] : c \in Currencies}

CurrencyWrites ==
  Inserts("prices", {Service}, PriceRows)
  \cup Updates("prices", {Service}, 1..MaxId, CurrencySets)
  \cup Inserts("orders", {Service}, PricedOrderRows)
  \cup Updates("orders", {Service}, {1}, CurrencySets)
  \cup Inserts("order_items", {Service}, PricedItemRows)
  \cup Updates("order_items", {Service}, {1}, CurrencySets)

RegisterPayer ==
  \E s \in Inserts("auth_users", {Service}, Payer), D \in {db} :
     \E res \in Exec(D, s) :
        /\ Commit(res)
        /\ last' = Outcome(s, res)

InsertPrice ==
  \E s \in Inserts("prices", {Service}, PriceRows), D \in {db} :
     \E res \in Exec(D, s) :
        /\ Commit(res)
        /\ last' = Outcome(s, res)

UpdatePrice ==
  \E s \in Updates("prices", {Service}, 1..MaxId, CurrencySets), D \in {db} :
     \E res \in Exec(D, s) :
        /\ Commit(res)
        /\ last' = Outcome(s, res)

DeletePrice ==
  \E s \in Deletes("prices", {Service}, 1..MaxId), D \in {db} :
     \E res \in Exec(D, s) :
        /\ Commit(res)
        /\ last' = Outcome(s, res)

InsertPricedOrder ==
  \E s \in Inserts("orders", {Service}, PricedOrderRows), D \in {db} :
     \E res \in Exec(D, s) :
        /\ Commit(res)
        /\ last' = Outcome(s, res)

UpdateOrderCurrency ==
  \E s \in Updates("orders", {Service}, {1}, CurrencySets), D \in {db} :
     \E res \in Exec(D, s) :
        /\ Commit(res)
        /\ last' = Outcome(s, res)

InsertPricedItem ==
  \E s \in Inserts("order_items", {Service}, PricedItemRows), D \in {db} :
     \E res \in Exec(D, s) :
        /\ Commit(res)
        /\ last' = Outcome(s, res)

UpdateItemCurrency ==
  \E s \in Updates("order_items", {Service}, {1}, CurrencySets), D \in {db} :
     \E res \in Exec(D, s) :
        /\ Commit(res)
        /\ last' = Outcome(s, res)

NextCurrency ==
  \/ RegisterPayer
  \/ InsertPrice \/ UpdatePrice \/ DeletePrice
  \/ InsertPricedOrder \/ UpdateOrderCurrency
  \/ InsertPricedItem \/ UpdateItemCurrency

SpecCurrency == Init /\ [][NextCurrency]_vars

CurrencyTables == {"prices", "orders", "order_items"}

\* C6 as stated: every row of prices, orders and order_items has a currency
\* of exactly 3 characters.
C6_CurrencyThreeChars ==
  \A t \in CurrencyTables : \A r \in db[t] :
     ~IsNull(r.currency) /\ Len(Val(r.currency)) = 3

\* C6, amended: every row of prices, orders and order_items has a currency
\* that is NULL or of exactly 3 characters; an insert or update that would
\* store a currency of another length is rejected and changes nothing.
C6_CurrencyNullOrThreeChars ==
  /\ \A t \in CurrencyTables : \A r \in db[t] :
        IsNull(r.currency) \/ Len(Val(r.currency)) = 3
  /\ \A s \in CurrencyWrites : \A res \in Exec(db, s) :
        ( /\ HasTarget(s)
          /\ ~IsNull(WrittenRow(s).currency)
          /\ Len(Val(WrittenRow(s).currency)) # 3 )
        => res.result = "check_violation" /\ res.db = db

\* A write of a currency has just been rejected by the check, while a price
\* with a 3-character currency and a price with no currency are stored.
C6_Witness ==
  /\ last.result = "check_violation" /\ last.table \in CurrencyTables
  /\ \E r \in prices : ~IsNull(r.currency) /\ Len(Val(r.currency)) = 3
  /\ \E r \in prices : IsNull(r.currency)

\* ------------------------------------------------ the change-log statements
\* Product changes and order changes 1..MaxId. Every role attempts inserts;
\* the back office only ever appends, so updates and deletes are attempted by
\* an admin, a signed-in user and a visitor.
AuditActors == {Service, Admin, Session(1), Anon}
AuditEditors == {Admin, Session(1), Anon}

ProductChangeRows ==
  {[id |-> i, changelog |-> V(JsonString("restocked"))] : i \in 1..MaxId}
ProductChangeSets == {[changelog |-> V(JsonString("rewritten"))]}

OrderChangeEntryRows == {[id |-> i, status |-> V("paid")] : i \in 1..MaxId}
OrderChangeSets == {[status |-> V("refunded")]}

InsertProductChange ==
  \E s \in Inserts("product_changes", AuditActors, ProductChangeRows), D \in {db} :
     \E res \in Exec(D, s) :
        /\ Commit(res)
        /\ last' = Outcome(s, res)

UpdateProductChange ==
  \E s \in Updates("product_changes", AuditEditors, 1..MaxId, ProductChangeSets), D \in {db} :
     \E res \in Exec(D, s) :
        /\ Commit(res)
        /\ last' = Outcome(s, res)

DeleteProductChange ==
  \E s \in Deletes("product_changes", AuditEditors, 1..MaxId), D \in {db} :
     \E res \in Exec(D, s) :
        /\ Commit(res)
        /\ last' = Outcome(s, res)

InsertOrderChangeEntry ==
  \E s \in Inserts("order_changes", AuditActors, OrderChangeEntryRows), D \in {db} :
     \E res \in Exec(D, s) :
        /\ Commit(res)
        /\ last' = Outcome(s, res)

UpdateOrderChangeEntry ==
  \E s \in Updates("order_changes", AuditEditors, 1..MaxId, OrderChangeSets), D \in {db} :
     \E res \in Exec(D, s) :
        /\ Commit(res)
        /\ last' = Outcome(s, res)

DeleteOrderChangeEntry ==
  \E s \in Deletes("order_changes", AuditEditors, 1..MaxId), D \in {db} :
     \E res \in Exec(D, s) :
        /\ Commit(res)
        /\ last' = Outcome(s, res)

NextAudit ==
  \/ InsertProductChange \/ UpdateProductChange \/ DeleteProductChange
  \/ InsertOrderChangeEntry \/ UpdateOrderChangeEntry \/ DeleteOrderChangeEntry

SpecAudit == Init /\ [][NextAudit]_vars

\* C8 as stated: an insert, update or delete issued by an end user leaves
\* every table unchanged except that user's own users row.
C8_EndUserWritesLeaveTablesUnchanged ==
  [][ ( /\ last'.role \in EndUserRoles
        /\ last'.cmd \in {"insert", "update", "delete"} )
      => /\ UNCHANGED <<auth_users, customers, sizes, colors, products,
                        product_variants, product_changes, prices, orders,
                        order_items, order_changes>>
         /\ {r \in users' : V(r.id) # last'.uid} = {r \in users : V(r.id) # last'.uid}
    ]_vars

\* C9 as stated: once a row of product_changes or order_changes has been
\* inserted, it is present with the same contents in every later state.
C9_ChangeLogsAppendOnly ==
  [][ /\ product_changes \subseteq product_changes'
      /\ order_changes \subseteq order_changes' ]_vars
====
